---------------------------- MODULE Spec2Model ----------------------------
(***************************************************************************)
(* A model of the lookup-argument orchestrator LookUp<T> of lookup.rs:     *)
(* read, pad, to_multiset and prove.  The collaborators that lookup.rs     *)
(* calls but does not define (MultiSet, the table, multiset_equality,      *)
(* quotient_poly, kzg10, the transcript) are modelled from their contracts.*)
(***************************************************************************)
EXTENDS Integers, Sequences, FiniteSets

(***************************************************************************)
(* Bounds of the model.                                                    *)
(***************************************************************************)
\* Field elements are 0 .. P-1 with arithmetic modulo P (stands for Fr).
P == 5
\* The largest number of successful reads; further reads are not issued.
MaxReads == 4
\* Operands of a read key range over 0 .. KeyMax (in and out of the table).
KeyMax == 3

Fr == 0 .. (P - 1)
Keys == (0 .. KeyMax) \X (0 .. KeyMax)

\* The tables the generic parameter T is instantiated with: the XOR relation
\* over left operands 0 .. shape[1]-1 and right operands 0 .. shape[2]-1
\* (0, 1, 3 and 4 rows).
TableShapes == {<<0, 0>>, <<1, 1>>, <<3, 1>>, <<2, 2>>}

\* The proving keys prove is called with (number of powers).
PkSizes == {1, 16}

VARIABLES
    table,          \* the shape of the table the LookUp owns
    left_wires,     \* MultiSet
    right_wires,    \* MultiSet
    output_wires,   \* MultiSet
    n_true,         \* history: the number of read calls that returned true
    ret,            \* the last finished call: its name, arguments and result
    pc,             \* the position of the running prove call, or "idle"
    transcript,     \* the transcript operations of the running/last prove
    loc             \* the local variables of the running/last prove

vars == <<table, left_wires, right_wires, output_wires, n_true, ret, pc,
          transcript, loc>>

(***************************************************************************)
(* Arithmetic helpers.                                                     *)
(***************************************************************************)
RECURSIVE Xor(_, _)
Xor(a, b) ==
    IF a = 0 /\ b = 0 THEN 0
    ELSE (((a % 2) + (b % 2)) % 2) + 2 * Xor(a \div 2, b \div 2)

RECURSIVE PowerOfTwoFrom(_, _)
PowerOfTwoFrom(p, n) == IF p >= n THEN p ELSE PowerOfTwoFrom(2 * p, n)

\* usize::next_power_of_two: the smallest power of two >= n (1 for n = 0).
NextPowerOfTwo(n) == PowerOfTwoFrom(1, n)

IsPowerOfTwo(n) == n >= 1 /\ NextPowerOfTwo(n) = n

(***************************************************************************)
(* MultiSet: an ordered sequence of field elements.                        *)
(***************************************************************************)
\* MultiSet * Fr: every element scaled.
Scale(ms, c) == [i \in 1 .. Len(ms) |-> (ms[i] * c) % P]

\* MultiSet + MultiSet: position-wise sum.
Add(a, b) == [i \in 1 .. Len(a) |-> (a[i] + b[i]) % P]

Repeat(n, value) == [i \in 1 .. n |-> value]

\* MultiSet::extend(n, value): n copies of value appended.
Extend(ms, n, value) == ms \o Repeat(n, value)

RECURSIVE Insert(_, _)
Insert(x, s) ==
    IF s = <<>> THEN <<x>>
    ELSE IF x <= Head(s) THEN <<x>> \o s
    ELSE <<Head(s)>> \o Insert(x, Tail(s))

RECURSIVE Sort(_)
\* MultiSet::sort: a new multiset in non-decreasing order.
Sort(ms) == IF ms = <<>> THEN <<>> ELSE Insert(Head(ms), Sort(Tail(ms)))

Concat(a, b) == a \o b

Count(ms, x) == Cardinality({i \in 1 .. Len(ms) : ms[i] = x})

Elems(ms) == {ms[i] : i \in 1 .. Len(ms)}

\* MultiSet::is_subset_of: every value's multiplicity in a is at most its
\* multiplicity in b.
IsSubsetOf(a, b) == \A x \in Elems(a) : Count(a, x) <= Count(b, x)

\* MultiSet::last.  The last element.  For an empty multiset no value is
\* specified: padding after zero reads is described as succeeding, so some
\* value may be returned, and an empty sequence has no last element, so the
\* call may be fatal.  Every outcome is possible.
LastOutcomes(ms) ==
    IF Len(ms) > 0 THEN {[ok |-> TRUE, value |-> ms[Len(ms)]]}
    ELSE {[ok |-> FALSE, value |-> 0]} \cup {[ok |-> TRUE, value |-> v] : v \in Fr}

(***************************************************************************)
(* The table (LookUpTable capability).                                     *)
(***************************************************************************)
InDomain(shape, key) == key[1] < shape[1] /\ key[2] < shape[2]

\* LookUpTable::read: the value of the relation at key (callers test
\* InDomain first; outside the domain there is no value).
TableRead(shape, key) == Xor(key[1], key[2])

NumRows(shape) == shape[1] * shape[2]

\* Row i (1-based) of the table in row-major order.
RowKey(shape, i) == <<(i - 1) \div shape[2], (i - 1) % shape[2]>>

\* LookUpTable::to_multiset: the three column multisets.
TableLeft(shape) == [i \in 1 .. NumRows(shape) |-> RowKey(shape, i)[1]]
TableRight(shape) == [i \in 1 .. NumRows(shape) |-> RowKey(shape, i)[2]]
TableOutput(shape) ==
    [i \in 1 .. NumRows(shape) |-> TableRead(shape, RowKey(shape, i))]

(***************************************************************************)
(* LookUp::read                                                            *)
(***************************************************************************)
\* ReadAppend without the early return on a missing value.
ReadAppendUnfiltered(shape, key) ==
    <<<<key[1], key[2], TableRead(shape, key)>>>>

\* The wires appended by a read of key (nothing when the table has no value).
ReadAppend(shape, key) ==
    IF ~InDomain(shape, key) THEN <<>>
    ELSE <<<<key[1], key[2], TableRead(shape, key)>>>>

(***************************************************************************)
(* LookUp::pad                                                             *)
(***************************************************************************)
\* The table-side padding of the witness-not-shorter branch: pad_amount
\* copies appended, where pad_amount = witness.len() + 1.
PadTableElse(witness, tbl, value) == Extend(tbl, Len(witness) + 1, value)

\* The outcomes of pad(witness, table).  counts are the padding counts
\* computed, as mathematical integers, in the order computed.  A negative
\* count is an unsigned underflow: a build with overflow checks panics at the
\* subtraction, a build without wraps to a count near usize::MAX and the
\* extension cannot be allocated; neither returns.
PadOutcomes(witness, tbl) ==
    IF Len(witness) < Len(tbl) THEN
        LET pad_to_power_of_two == NextPowerOfTwo(Len(tbl)) - Len(tbl)
            table1 == Extend(tbl, pad_to_power_of_two, tbl[Len(tbl)])
            pad_amount == Len(table1) - Len(witness) - 1
        IN  { IF l.ok
              THEN [status |-> "ok",
                    witness |-> Extend(witness, pad_amount, l.value),
                    table |-> table1,
                    counts |-> <<pad_to_power_of_two, pad_amount>>]
              ELSE [status |-> "panic_last", witness |-> witness,
                    table |-> table1,
                    counts |-> <<pad_to_power_of_two, pad_amount>>]
              : l \in LastOutcomes(witness) }
    ELSE
        LET pad_to_power_of_two ==
                NextPowerOfTwo(Len(witness)) - Len(witness)
        IN  IF pad_to_power_of_two - 1 < 0
            THEN { [status |-> s, witness |-> witness, table |-> tbl,
                    counts |-> <<pad_to_power_of_two,
                                 pad_to_power_of_two - 1>>]
                   : s \in {"panic_overflow", "panic_alloc"} }
            ELSE { IF l.ok
                   THEN LET witness1 ==
                                Extend(witness, pad_to_power_of_two - 1, l.value)
                        IN  [status |-> "ok",
                             witness |-> witness1,
                             table |-> PadTableElse(witness1, tbl, l.value),
                             counts |-> <<pad_to_power_of_two,
                                          pad_to_power_of_two - 1,
                                          Len(witness1) + 1>>]
                   ELSE [status |-> "panic_last", witness |-> witness,
                         table |-> tbl,
                         counts |-> <<pad_to_power_of_two,
                                      pad_to_power_of_two - 1>>]
                   : l \in LastOutcomes(tbl) }

(***************************************************************************)
(* LookUp::to_multiset                                                     *)
(***************************************************************************)
\* left * 1 + right * challenge + output * challenge^2
Merge(left, right, output, challenge) ==
    LET challenge_0 == 1
        challenge_1 == challenge
        challenge_2 == (challenge * challenge) % P
    IN  Add(Add(Scale(left, challenge_0), Scale(right, challenge_1)),
            Scale(output, challenge_2))

\* MergedWitness with the challenge powers of left and right exchanged.
MergedWitnessSwapped(left, right, output, challenge) ==
    Merge(right, left, output, challenge)

MergedWitness(left, right, output, challenge) ==
    Merge(left, right, output, challenge)

\* MergedTable with the challenge powers of right and output exchanged.
MergedTableSwapped(shape, challenge) ==
    Sort(Merge(TableLeft(shape), TableOutput(shape), TableRight(shape),
               challenge))

MergedTable(shape, challenge) ==
    Sort(Merge(TableLeft(shape), TableRight(shape), TableOutput(shape),
               challenge))

ToMultisetOutcomes(shape, left, right, output, challenge) ==
    PadOutcomes(MergedWitness(left, right, output, challenge),
                MergedTable(shape, challenge))

(***************************************************************************)
(* Collaborators of prove.                                                 *)
(***************************************************************************)
\* A polynomial is the tuple <<kind, values, n>> of what determines it: the
\* evaluations it interpolates (kind "interp"), or the challenges of the
\* accumulator ("Z") or of the quotient ("Q") of the running prove; n bounds
\* its number of coefficients.  A polynomial not yet computed is <<>>.
NoPoly == <<>>
Poly(kind, values, n) == <<kind, values, n>>

\* EvaluationDomain::new(num_coeffs): a domain of the next power of two.
DomainSize(num_coeffs) == NextPowerOfTwo(num_coeffs)

\* How to_polynomial treats a sequence shorter than the domain: its contract
\* makes any length mismatch fatal ("exact"), while interpolating both f and
\* t over one domain, as prove does, needs the shorter one zero-filled
\* ("zero_pad").  Both are outcomes.
InterpModes == {"exact", "zero_pad"}

\* MultiSet::to_polynomial(domain)
ToPolynomial(ms, size, mode) ==
    IF Len(ms) = size
    THEN [ok |-> TRUE, poly |-> Poly("interp", ms, size)]
    ELSE IF Len(ms) < size /\ mode = "zero_pad"
    THEN [ok |-> TRUE,
          poly |-> Poly("interp", Extend(ms, size - Len(ms), 0), size)]
    ELSE [ok |-> FALSE, poly |-> NoPoly]

\* multiset_equality::compute_h1_h2: f and t concatenated and sorted, split
\* into the first and the last len(t) elements.
ComputeH1H2(f, t) ==
    LET s == Sort(Concat(f, t))
    IN  <<SubSeq(s, 1, Len(t)), SubSeq(s, Len(s) - Len(t) + 1, Len(s))>>

\* kzg10::commit: a binding commitment; fatal when the key is too small.
CommitOk(pk, poly) == poly[3] <= pk
Commit(pk, poly) == <<"commit", poly>>
NoCommit == <<>>

\* The accumulator polynomial Z (lines 140-142), named by its challenges.
ZPoly(size, beta, gamma) ==
    Poly("Z", <<beta, gamma>>, size)

\* quotient_poly::compute returns (quotient, remainder); the remainder is
\* zero exactly when the witness satisfies the lookup relation, i.e. every
\* witness value is a table value.
QuotientPoly(size, beta, gamma) ==
    Poly("Q", <<beta, gamma>>, size)
Remainder(f, t) == IF Elems(f) \subseteq Elems(t) THEN 0 ELSE 1

NoProof ==
    [h_1_comm |-> NoCommit, h_2_comm |-> NoCommit, z_comm |-> NoCommit,
     q_comm |-> NoCommit]

\* The Proof value built at the end of prove.
MakeProof(h_1_commit, h_2_commit, z_commit, q_commit) ==
    [h_1_comm |-> h_1_commit, h_2_comm |-> h_1_commit, z_comm |-> z_commit,
     q_comm |-> q_commit]

\* Transcript operations, as logged.
ChallengeScalar(label) == [op |-> "challenge_scalar", label |-> label]
AppendCommitment(label) == [op |-> "append_commitment", label |-> label]

(***************************************************************************)
(* State.                                                                  *)
(***************************************************************************)
NoRet ==
    [op |-> "new", value |-> FALSE, status |-> "ok", key |-> <<0, 0>>,
     challenge |-> 0, witness |-> <<>>, table |-> <<>>, counts |-> <<>>]

NoLoc ==
    [pk |-> 0, challenge |-> 0, f |-> <<>>, t |-> <<>>, size |-> 0,
     f_poly |-> NoPoly, t_poly |-> NoPoly, h_1 |-> <<>>, h_2 |-> <<>>,
     h_1_poly |-> NoPoly, h_2_poly |-> NoPoly,
     h_1_commit |-> NoCommit, h_2_commit |-> NoCommit,
     beta |-> 0, gamma |-> 0, z_poly |-> NoPoly, z_commit |-> NoCommit,
     quotient_poly |-> NoPoly, divided |-> FALSE, remainder |-> 0,
     q_commit |-> NoCommit, proof |-> NoProof]

\* LookUp::new(table)
Init ==
    /\ table \in TableShapes
    /\ left_wires = <<>>
    /\ right_wires = <<>>
    /\ output_wires = <<>>
    /\ n_true = 0
    /\ ret = NoRet
    /\ pc = "idle"
    /\ transcript = <<>>
    /\ loc = NoLoc

wires == <<left_wires, right_wires, output_wires>>

\* LookUp::read(key)
Read(key) ==
    /\ pc = "idle"
    /\ Len(left_wires) < MaxReads
    /\ LET app == ReadAppend(table, key)
       IN  /\ left_wires' = left_wires \o [i \in 1 .. Len(app) |-> app[i][1]]
           /\ right_wires' = right_wires \o [i \in 1 .. Len(app) |-> app[i][2]]
           /\ output_wires' =
                  output_wires \o [i \in 1 .. Len(app) |-> app[i][3]]
           /\ ret' = [NoRet EXCEPT !.op = "read", !.key = key,
                                   !.value = InDomain(table, key)]
           /\ n_true' = IF InDomain(table, key) THEN n_true + 1 ELSE n_true
    /\ transcript' = <<>>
    /\ loc' = NoLoc
    /\ UNCHANGED <<table, pc>>

\* LookUp::to_multiset(challenge)
ToMultiset(challenge) ==
    /\ pc = "idle"
    /\ \E o \in ToMultisetOutcomes(table, left_wires, right_wires,
                                   output_wires, challenge) :
           ret' = [NoRet EXCEPT !.op = "to_multiset", !.challenge = challenge,
                                !.status = o.status, !.witness = o.witness,
                                !.table = o.table, !.counts = o.counts]
    /\ transcript' = <<>>
    /\ loc' = NoLoc
    /\ UNCHANGED <<table, left_wires, right_wires, output_wires, n_true, pc>>

\* A fatal abort of prove.
Abort(reason) ==
    /\ pc' = "idle"
    /\ ret' = [NoRet EXCEPT !.op = "prove", !.status = reason]

\* prove, lines 111-113: the RLC challenge, to_multiset, the length assertion.
ProveStart(pk, challenge) ==
    /\ pc = "idle"
    /\ transcript' = <<ChallengeScalar("challenge")>>
    /\ \E o \in ToMultisetOutcomes(table, left_wires, right_wires,
                                   output_wires, challenge) :
           IF o.status # "ok"
           THEN /\ Abort(o.status)
                /\ loc' = [NoLoc EXCEPT !.pk = pk, !.challenge = challenge]
           ELSE IF Len(o.witness) + 1 # Len(o.table)
           THEN /\ Abort("assert_eq")
                /\ loc' = [NoLoc EXCEPT !.pk = pk, !.challenge = challenge,
                                        !.f = o.witness, !.t = o.table]
           ELSE /\ pc' = "interpolate"
                /\ ret' = NoRet
                /\ loc' = [NoLoc EXCEPT !.pk = pk, !.challenge = challenge,
                                        !.f = o.witness, !.t = o.table]
    /\ UNCHANGED <<table, left_wires, right_wires, output_wires, n_true>>

\* prove, lines 115-130: the domain, f_poly, t_poly, h_1, h_2, their
\* polynomials and commitments.
ProveInterpolate(mode) ==
    /\ pc = "interpolate"
    /\ LET size == DomainSize(Len(loc.f))
           fp == ToPolynomial(loc.f, size, mode)
           tp == ToPolynomial(loc.t, size, mode)
           h == ComputeH1H2(loc.f, loc.t)
           h1p == ToPolynomial(h[1], size, mode)
           h2p == ToPolynomial(h[2], size, mode)
       IN  IF ~(fp.ok /\ tp.ok /\ h1p.ok /\ h2p.ok)
           THEN /\ Abort("to_polynomial")
                /\ loc' = [loc EXCEPT !.size = size]
           ELSE IF ~(CommitOk(loc.pk, h1p.poly) /\ CommitOk(loc.pk, h2p.poly))
           THEN /\ Abort("commit")
                /\ loc' = [loc EXCEPT !.size = size]
           ELSE /\ pc' = "append_h_1"
                /\ loc' = [loc EXCEPT !.size = size,
                               !.f_poly = fp.poly, !.t_poly = tp.poly,
                               !.h_1 = h[1], !.h_2 = h[2],
                               !.h_1_poly = h1p.poly, !.h_2_poly = h2p.poly,
                               !.h_1_commit = Commit(loc.pk, h1p.poly),
                               !.h_2_commit = Commit(loc.pk, h2p.poly)]
                /\ UNCHANGED ret
    /\ UNCHANGED <<table, left_wires, right_wires, output_wires, n_true,
                   transcript>>

\* One transcript operation of prove at position at, then position next.
TranscriptStep(at, entry, next) ==
    /\ pc = at
    /\ transcript' = Append(transcript, entry)
    /\ pc' = next

\* prove, line 133
ProveAppendH1 ==
    /\ TranscriptStep("append_h_1", AppendCommitment("h_1"), "append_h_2")
    /\ UNCHANGED <<table, left_wires, right_wires, output_wires, n_true, ret,
                   loc>>

\* ProveAppendH2 without the absorption.
ProveAppendH2Skipped ==
    /\ pc = "append_h_2"
    /\ pc' = "beta"
    /\ UNCHANGED <<table, left_wires, right_wires, output_wires, n_true, ret,
                   loc, transcript>>

\* prove, line 134
ProveAppendH2 ==
    /\ TranscriptStep("append_h_2", AppendCommitment("h_2"), "beta")
    /\ UNCHANGED <<table, left_wires, right_wires, output_wires, n_true, ret,
                   loc>>

\* prove, line 136
ProveBeta(beta) ==
    /\ TranscriptStep("beta", ChallengeScalar("beta"), "gamma")
    /\ loc' = [loc EXCEPT !.beta = beta]
    /\ UNCHANGED <<table, left_wires, right_wires, output_wires, n_true, ret>>

\* prove, line 137
ProveGamma(gamma) ==
    /\ TranscriptStep("gamma", ChallengeScalar("gamma"), "accumulator")
    /\ loc' = [loc EXCEPT !.gamma = gamma]
    /\ UNCHANGED <<table, left_wires, right_wires, output_wires, n_true, ret>>

\* prove, lines 140-145: Z(X) and its commitment.
ProveAccumulator ==
    /\ pc = "accumulator"
    /\ LET z == ZPoly(loc.size, loc.beta, loc.gamma)
       IN  IF ~CommitOk(loc.pk, z)
           THEN /\ Abort("commit")
                /\ UNCHANGED loc
           ELSE /\ pc' = "quotient"
                /\ loc' = [loc EXCEPT !.z_poly = z,
                                      !.z_commit = Commit(loc.pk, z)]
                /\ UNCHANGED ret
    /\ UNCHANGED <<table, left_wires, right_wires, output_wires, n_true,
                   transcript>>

\* prove, lines 148-163: the quotient, its commitment and the Proof.
ProveQuotient ==
    /\ pc = "quotient"
    /\ LET q == QuotientPoly(loc.size, loc.beta, loc.gamma)
           r == Remainder(loc.f, loc.t)
       IN  IF ~CommitOk(loc.pk, q)
           THEN /\ Abort("commit")
                /\ loc' = [loc EXCEPT !.quotient_poly = q, !.divided = TRUE,
                                      !.remainder = r]
           ELSE /\ pc' = "idle"
                /\ ret' = [NoRet EXCEPT !.op = "prove", !.status = "ok"]
                /\ loc' = [loc EXCEPT
                               !.quotient_poly = q, !.divided = TRUE,
                               !.remainder = r,
                               !.q_commit = Commit(loc.pk, q),
                               !.proof = MakeProof(loc.h_1_commit,
                                                   loc.h_2_commit,
                                                   loc.z_commit,
                                                   Commit(loc.pk, q))]
    /\ UNCHANGED <<table, left_wires, right_wires, output_wires, n_true,
                   transcript>>

Next ==
    \/ \E key \in Keys : Read(key)
    \/ \E challenge \in Fr : ToMultiset(challenge)
    \/ \E pk \in PkSizes, challenge \in Fr : ProveStart(pk, challenge)
    \/ \E mode \in InterpModes : ProveInterpolate(mode)
    \/ ProveAppendH1
    \/ ProveAppendH2
    \/ \E beta \in Fr : ProveBeta(beta)
    \/ \E gamma \in Fr : ProveGamma(gamma)
    \/ ProveAccumulator
    \/ ProveQuotient

Spec == Init /\ [][Next]_vars

(***************************************************************************)
(* Properties.                                                             *)
(***************************************************************************)
ToMultisetReturned == ret.op = "to_multiset" /\ ret.status = "ok"
ProveReturned == ret.op = "prove" /\ ret.status = "ok"

IsPrefix(a, b) == Len(a) <= Len(b) /\ \A i \in 1 .. Len(a) : a[i] = b[i]

IsNonDecreasing(ms) == \A i \in 1 .. (Len(ms) - 1) : ms[i] <= ms[i + 1]

\* The value a table row (or a read) merges to under challenge c.
Rlc(l, r, o, c) == (l + c * r + c * c * o) % P

\* C1: whenever to_multiset returns, merged_witness.len() + 1 equals
\* merged_table.len() and merged_table.len() is a power of two.
C1_PaddingLaw ==
    ToMultisetReturned =>
        /\ Len(ret.witness) + 1 = Len(ret.table)
        /\ IsPowerOfTwo(Len(ret.table))

\* What a step that ends a read call does.
C2_ReadStep ==
    ret'.op = "read" =>
        IF InDomain(table, ret'.key)
        THEN /\ ret'.value = TRUE
             /\ left_wires' = Append(left_wires, ret'.key[1])
             /\ right_wires' = Append(right_wires, ret'.key[2])
             /\ output_wires' =
                    Append(output_wires, Xor(ret'.key[1], ret'.key[2]))
        ELSE /\ ret'.value = FALSE
             /\ wires' = wires
\* The wire multisets are as long as the number of reads that returned true.
C2_Lengths ==
    /\ Len(left_wires) = n_true
    /\ Len(right_wires) = n_true
    /\ Len(output_wires) = n_true
\* C2: a read of a key the table has no value for returns false and leaves
\* the three wire multisets unchanged; any other read returns true and
\* appends key.0, key.1 and the table's value, one to each; the three wire
\* multisets always have the same length, the number of reads that returned
\* true.
C2_ReadFiltering == [][C2_ReadStep]_vars /\ []C2_Lengths
\* A read that returned false after one that returned true.
C2_Witness == ret.op = "read" /\ ret.value = FALSE /\ n_true >= 1

PaddedTableLen ==
    LET m == IF NumRows(table) > Len(left_wires) + 1
             THEN NumRows(table) ELSE Len(left_wires) + 1
    IN  NextPowerOfTwo(m)
\* C4: prove, called after at least one read with a proving key at least as
\* large as the padded table, runs to completion and returns a Proof.
C4_Completion ==
    (ret.op = "prove" /\ Len(left_wires) >= 1 /\ loc.pk >= Len(loc.t)
                      /\ loc.pk >= PaddedTableLen) =>
        ret.status = "ok"

\* C5: in the returned Proof, h_1_comm is the commitment to the h1
\* polynomial, h_2_comm to the h2 polynomial, z_comm to Z and q_comm to the
\* quotient.
C5_ProofContents ==
    ProveReturned =>
        /\ loc.proof.h_1_comm = Commit(loc.pk, loc.h_1_poly)
        /\ loc.proof.h_2_comm = Commit(loc.pk, loc.h_2_poly)
        /\ loc.proof.z_comm = Commit(loc.pk, loc.z_poly)
        /\ loc.proof.q_comm = Commit(loc.pk, loc.quotient_poly)

ProveTranscript ==
    <<ChallengeScalar("challenge"), AppendCommitment("h_1"),
      AppendCommitment("h_2"), ChallengeScalar("beta"),
      ChallengeScalar("gamma")>>
\* C7: the transcript operations of prove are, in order, the RLC challenge,
\* the absorption of h_1, of h_2, the challenges beta and gamma; the merged
\* multisets come after the first, the accumulator and the quotient after
\* the last, and both commitments exist before either is absorbed.
C7_TranscriptOrder ==
    /\ IsPrefix(transcript, ProveTranscript)
    /\ (pc # "idle" \/ ret.op = "prove") => Len(transcript) >= 1
    /\ Len(transcript) >= 2 =>
           loc.h_1_commit # NoCommit /\ loc.h_2_commit # NoCommit
    /\ (loc.z_poly # NoPoly \/ loc.divided \/ ProveReturned) =>
           transcript = ProveTranscript
\* prove returned a Proof.
C7_Witness == ProveReturned /\ transcript = ProveTranscript

\* C8: every padding count pad computes is >= 0.
C8_NoNegativeCount ==
    ret.op = "to_multiset" =>
        \A i \in 1 .. Len(ret.counts) : ret.counts[i] >= 0

\* C9: when pad is entered with witness.len() >= table.len(), on return
\* witness.len() is next_power_of_two(initial witness.len()) - 1 and
\* table.len() is witness.len() + 1.
C9_ElseBranch ==
    (ToMultisetReturned /\ Len(left_wires) >= NumRows(table)) =>
        /\ Len(ret.witness) = NextPowerOfTwo(Len(left_wires)) - 1
        /\ Len(ret.table) = Len(ret.witness) + 1

\* The returned multisets start with the unpadded ones.
C10_Prefixes ==
    ToMultisetReturned =>
        LET n == Len(left_wires)
            rows == NumRows(table)
            head == SubSeq(ret.table, 1, rows)
        IN  /\ n <= Len(ret.witness)
            /\ \A i \in 1 .. n :
                   ret.witness[i] = Rlc(left_wires[i], right_wires[i],
                                        output_wires[i], ret.challenge)
            /\ rows <= Len(ret.table)
            /\ IsNonDecreasing(head)
            /\ \A x \in Fr :
                   Count(head, x) =
                       Cardinality({i \in 1 .. rows :
                           Rlc(RowKey(table, i)[1], RowKey(table, i)[2],
                               Xor(RowKey(table, i)[1], RowKey(table, i)[2]),
                               ret.challenge) = x})
\* A step that ends a to_multiset call keeps the wires.
C10_WiresKept == ret'.op = "to_multiset" => wires' = wires
\* C10: the returned merged_witness starts with left + challenge * right +
\* challenge^2 * output of the reads in call order, the returned
\* merged_table starts with the table's merged values in non-decreasing
\* order, and to_multiset leaves the wire multisets unchanged.
C10_PaddingOnlyAppends == []C10_Prefixes /\ [][C10_WiresKept]_vars
\* to_multiset returned a padded witness whose first two elements, from two
\* reads, are in decreasing order.
C10_Witness ==
    /\ ToMultisetReturned
    /\ Len(left_wires) >= 2
    /\ Len(ret.witness) > Len(left_wires)
    /\ ret.witness[1] > ret.witness[2]

=============================================================================
